---- MODULE Spec2Model ----
(***************************************************************************)
(* unnest-ndjson: the streaming unnesting engine of src/src/lib.rs, its    *)
(* buffered Source (src/src/source.rs) and the default Sinker rendering    *)
(* (src/src/sink.rs), as a stack machine over a byte stream.               *)
(*                                                                         *)
(* Bytes are integers 0..255.  The recursive descent of lib.rs is kept as  *)
(* an explicit call stack of frames; every action is one straight-line     *)
(* piece of a function of lib.rs between two calls (or one loop            *)
(* iteration).                                                             *)
(***************************************************************************)
EXTENDS Integers, Sequences, FiniteSets, TLC

VARIABLES
    src,           \* Source { inner, buf, len, pos }
    out,           \* the bytes the Write sink has received
    events,        \* the calls the sink has received: new / write / end
    stack,         \* call stack of the traversal, top first
    path,          \* path: Vec<Vec<u8>> of unnest_to_ndjson
    key,           \* key: Vec<u8> being collected by handle_object
    result,        \* "running", or what unnest_to_ndjson returned
    input,         \* the whole byte stream handed to unnest_to_ndjson
    doc,           \* the JSON value the input was serialised from, or NoDoc
    fault,         \* how the input departs from a well-formed document
    target,        \* depth argument of unnest_to_ndjson
    header_style   \* HeaderStyle handed to the Sinker

vars == <<src, out, events, stack, path, key, result, input, doc, fault, target, header_style>>

---------------------------------------------------------------------------
(* Bounds of the model *)

\* capacity of Source.buf (16 * 1024 in the program), scaled down so that
\* tokens straddle refills
BufSize == 3
\* largest target depth tried
MaxTarget == 2
\* most elements / members of a generated container
MaxWidth == 2
\* longest stream of arbitrary bytes tried
MaxRaw == 3
\* longest stream read through the Source operation by operation
MaxStream == 4

---------------------------------------------------------------------------
(* Byte literals of lib.rs *)

LBRACE == 123
RBRACE == 125
LBRACKET == 91
RBRACKET == 93
QUOTE == 34
COMMA == 44
COLON == 58
BACKSLASH == 92
LOWER_U == 117
CR == 13
LF == 10

Min(S) == CHOOSE x \in S : \A y \in S : x <= y

\* u8::is_ascii_whitespace: space, tab, line feed, form feed, carriage return
is_ascii_whitespace(b) == b \in {32, 9, 10, 12, 13}

\* u8::is_ascii_control: 0x00..=0x1f and 0x7f
is_ascii_control(b) == b \in 0..31 \/ b = 127

\* u8::is_ascii_hexdigit: 0-9, A-F, a-f
is_ascii_hexdigit(b) == b \in 48..57 \/ b \in 65..70 \/ b \in 97..102

\* is_short_escape that lets every letter through
is_short_escape_any(b) == TRUE

\* the one-letter escapes parse_string copies through: " / \ b f r n t
is_short_escape(b) == b \in {34, 47, 92, 98, 102, 114, 110, 116}

\* is_primitive_end without the colon
is_primitive_end_no_colon(b) ==
    \/ is_ascii_whitespace(b)
    \/ b = COMMA
    \/ b = RBRACKET
    \/ b = RBRACE
    \/ is_ascii_control(b)

\* the bytes at which scan_primitive stops
is_primitive_end(b) ==
    \/ is_ascii_whitespace(b)
    \/ b = COMMA
    \/ b = RBRACKET
    \/ b = RBRACE
    \/ b = COLON
    \/ is_ascii_control(b)

---------------------------------------------------------------------------
(* Source (source.rs) *)

\* Source::new
Source_new(bytes) ==
    [inner |-> bytes, buf |-> [i \in 1..BufSize |-> 0], len |-> 0, pos |-> 0]

\* ReadMany::read_many on `free` bytes of room: reads until the room is full
\* or the stream is at its end
read_many(inner, free) == IF free < Len(inner) THEN free ELSE Len(inner)

\* Source::fill; ok = FALSE is Err(UnexpectedEof)
fill(s) ==
    LET r == IF s.pos = s.len THEN [s EXCEPT !.pos = 0, !.len = 0] ELSE s
        found == read_many(r.inner, BufSize - r.len)
    IN  IF found = 0 /\ r.len = 0
        THEN [ok |-> FALSE, s |-> r]
        ELSE [ok |-> TRUE,
              s |-> [r EXCEPT
                       !.buf = [i \in 1..BufSize |->
                                  IF i > r.len /\ i <= r.len + found
                                  THEN r.inner[i - r.len] ELSE r.buf[i]],
                       !.len = r.len + found,
                       !.inner = SubSeq(r.inner, found + 1, Len(r.inner))]]

\* Source::buf
buf(s) == SubSeq(s.buf, s.pos + 1, s.len)

\* Source::consume
consume(s, amt) == [s EXCEPT !.pos = s.pos + amt]

\* Source::all_useless
all_useless(s) == [s EXCEPT !.pos = 0, !.len = 0]

\* Source::next; ok = FALSE is Err(UnexpectedEof).  s is the value of self
\* when the call is made
RECURSIVE next(_)
next(self) ==
    CHOOSE r \in
        {IF s.pos < s.len
         THEN [ok |-> TRUE, b |-> s.buf[s.pos + 1], s |-> [s EXCEPT !.pos = s.pos + 1]]
         ELSE LET f == fill(s)
              IN  IF f.ok THEN next(f.s) ELSE [ok |-> FALSE, b |-> 0, s |-> f.s]
         : s \in {self}} : TRUE

\* Source::peek
RECURSIVE peek(_)
peek(self) ==
    CHOOSE r \in
        {IF s.pos < s.len
         THEN [ok |-> TRUE, b |-> s.buf[s.pos + 1], s |-> s]
         ELSE LET f == fill(s)
              IN  IF f.ok THEN peek(f.s) ELSE [ok |-> FALSE, b |-> 0, s |-> f.s]
         : s \in {self}} : TRUE

\* drop_whitespace (lib.rs); ok = FALSE is Err(UnexpectedEof)
RECURSIVE drop_whitespace(_)
drop_whitespace(from) ==
    CHOOSE r \in
        {LET view == buf(s)
             found == {i \in 1..Len(view) : ~is_ascii_whitespace(view[i])}
         IN  IF found # {}
             THEN [ok |-> TRUE, s |-> consume(s, Min(found) - 1)]
             ELSE LET f == fill(all_useless(s))
                  IN  IF f.ok THEN drop_whitespace(f.s) ELSE [ok |-> FALSE, s |-> f.s]
         : s \in {from}} : TRUE

\* bytes of the stream the Source has handed out so far
Consumed(s) == Len(input) - Len(s.inner) - (s.len - s.pos)

---------------------------------------------------------------------------
(* Sinker (sink.rs) and write_prefix (lib.rs) *)

HeaderStyles == {"None", "PathArray"}

RECURSIVE write_segments(_, _)
\* the loop of write_prefix over path.iter().enumerate(), from position pos (0-based)
write_segments(p, pos) ==
    IF pos >= Len(p) THEN <<>>
    ELSE p[pos + 1] \o (IF pos # Len(p) - 1 THEN <<COMMA>> ELSE <<>>)
                    \o write_segments(p, pos + 1)

\* write_prefix: {"key":[  segments  ],"value":
write_prefix(p) ==
    <<LBRACE, QUOTE, 107, 101, 121, QUOTE, COLON, LBRACKET>>
        \o write_segments(p, 0)
        \o <<RBRACKET, COMMA, QUOTE, 118, 97, 108, 117, 101, QUOTE, COLON>>

\* Sinker::observe_new_item, default implementation: the bytes it writes
observe_new_item(p, hs) == IF hs = "None" THEN <<>> ELSE write_prefix(p)

\* observe_end that closes the wrapper in every style
observe_end_always_brace(hs) == <<RBRACE, LF>>

\* Sinker::observe_end, default implementation: the bytes it writes
observe_end(hs) == IF hs = "None" THEN <<LF>> ELSE <<RBRACE, LF>>

\* format_idx counting from one
format_idx_from_one(idx) == <<49 + idx>>

\* format!("{}", idx).into_bytes(): the decimal digits of idx
RECURSIVE format_idx(_)
format_idx(idx) ==
    IF idx < 10 THEN <<48 + idx>> ELSE format_idx(idx \div 10) \o <<48 + (idx % 10)>>

---------------------------------------------------------------------------
(* The traversal of lib.rs as a stack machine *)

\* a call frame; entry is the path the call was made with
Fr(fn, pc, depth, idx, dst, c) ==
    [fn |-> fn, pc |-> pc, depth |-> depth, idx |-> idx, dst |-> dst, c |-> c,
     entry |-> path]
\* the frame of a call made right after path.push(..)
FrPushed(fn, pc, depth, p) == [Fr(fn, pc, depth, 0, "sink", 0) EXCEPT !.entry = p]

Top == stack[1]
At(fn, pc) == result = "running" /\ stack # <<>> /\ Top.fn = fn /\ Top.pc = pc

\* the caller goes on at pc once the callee returns
Cont(pc) == <<[Top EXCEPT !.pc = pc]>> \o Tail(stack)
Call(callee, pc) == <<callee>> \o Cont(pc)
Return == Tail(stack)

EvNew(p, s) == [ev |-> "new", path |-> p, bytes |-> <<>>, at |-> Consumed(s)]
EvWrite(bytes, s) == [ev |-> "write", path |-> <<>>, bytes |-> bytes, at |-> Consumed(s)]
EvEnd(s) == [ev |-> "end", path |-> <<>>, bytes |-> <<>>, at |-> Consumed(s)]

Frozen == UNCHANGED <<input, doc, fault, target, header_style>>

\* one step: every variable of the program gets its next value
Go(s, o, ev, st, p, k, r) ==
    /\ src' = s
    /\ out' = o
    /\ events' = ev
    /\ stack' = st
    /\ path' = p
    /\ key' = k
    /\ result' = r
    /\ Frozen

\* into.write_all(bytes), where `into` is the sink or handle_object's key
WriteOut(dst, bytes) == IF dst = "sink" THEN out \o bytes ELSE out
WriteEv(dst, bytes, s) == IF dst = "sink" THEN Append(events, EvWrite(bytes, s)) ELSE events
WriteKey(dst, bytes) == IF dst = "key" THEN key \o bytes ELSE key

\* a step that writes bytes to dst and goes on with stack st
Write(s, dst, bytes, st) ==
    Go(s, WriteOut(dst, bytes), WriteEv(dst, bytes, s), st, path, WriteKey(dst, bytes), "running")

\* `?` on an Err: the error unwinds every frame and is what the run returns
Raise(s, e, p) == Go(s, out, events, <<>>, p, key, e)
\* the same after bytes were written to the sink in this step
RaiseAfterWrite(s, e, bytes) ==
    Go(s, out \o bytes, Append(events, EvWrite(bytes, s)), <<>>, path, key, e)

\* unnest_to_ndjson, up to the call of handle_one
unnest_start ==
    /\ At("unnest_to_ndjson", "start")
    /\ LET d == drop_whitespace(src)
       IN  IF ~d.ok THEN Raise(d.s, "UnexpectedEof", path)
           ELSE Go(d.s, out, events,
                   Call(Fr("handle_one", "start", target, 0, "sink", 0), "ret"),
                   path, key, "running")

\* unnest_to_ndjson: Ok(()) after handle_one
unnest_ret ==
    /\ At("unnest_to_ndjson", "ret")
    /\ Go(src, out, events, <<>>, path, key, "Ok")

\* handle_one_start that opens an item for a container above the target too
handle_one_start_always_item ==
    /\ At("handle_one", "start")
    /\ Go(src, out \o observe_new_item(path, header_style),
          Append(events, EvNew(path, src)),
          Call(Fr("scan_one", "start", 0, 0, "sink", 0), "close"),
          path, key, "running")

\* handle_one: the depth == 0 branch up to scan_one, or from.next() and the match
handle_one_start ==
    /\ At("handle_one", "start")
    /\ IF Top.depth = 0
       THEN Go(src, out \o observe_new_item(path, header_style),
               Append(events, EvNew(path, src)),
               Call(Fr("scan_one", "start", 0, 0, "sink", 0), "close"),
               path, key, "running")
       ELSE LET n == next(src)
            IN  IF ~n.ok THEN Raise(n.s, "UnexpectedEof", path)
                ELSE IF n.b = LBRACE
                THEN Go(n.s, out, events,
                        Call(Fr("handle_object", "loop", Top.depth, 0, "sink", 0), "ret"),
                        path, key, "running")
                ELSE IF n.b = LBRACKET
                THEN Go(n.s, out, events,
                        Call(Fr("handle_array", "loop", Top.depth, 0, "sink", 0), "ret"),
                        path, key, "running")
                ELSE IF n.b = QUOTE
                THEN Go(n.s, out \o observe_new_item(path, header_style),
                        Append(events, EvNew(path, n.s)),
                        Call(Fr("parse_string", "start", 0, 0, "sink", 0), "close"),
                        path, key, "running")
                ELSE Go(n.s, out \o observe_new_item(path, header_style),
                        Append(events, EvNew(path, n.s)),
                        Call(Fr("scan_primitive", "start", 0, 0, "sink", n.b), "close"),
                        path, key, "running")

\* handle_one_close without the end of the item
handle_one_close_no_end ==
    /\ At("handle_one", "close")
    /\ Go(src, out, events, Return, path, key, "running")

\* handle_one: the item's value is written; end the item and return
handle_one_close ==
    /\ At("handle_one", "close")
    /\ Go(src, out \o observe_end(header_style), Append(events, EvEnd(src)),
          Return, path, key, "running")

\* handle_one: handle_object / handle_array returned; Ok(())
handle_one_ret ==
    /\ At("handle_one", "ret")
    /\ Go(src, out, events, Return, path, key, "running")

\* scan_one: from.next() and the match
scan_one_start ==
    /\ At("scan_one", "start")
    /\ LET n == next(src)
       IN  IF ~n.ok THEN Raise(n.s, "UnexpectedEof", path)
           ELSE Go(n.s, out, events,
                   Call(IF n.b = LBRACE THEN Fr("scan_object", "start", 0, 0, "sink", 0)
                        ELSE IF n.b = LBRACKET THEN Fr("scan_array", "start", 0, 0, "sink", 0)
                        ELSE IF n.b = QUOTE THEN Fr("parse_string", "start", 0, 0, "sink", 0)
                        ELSE Fr("scan_primitive", "start", 0, 0, "sink", n.b),
                        "ret"),
                   path, key, "running")

\* scan_one: Ok(())
scan_one_ret ==
    /\ At("scan_one", "ret")
    /\ Go(src, out, events, Return, path, key, "running")

\* handle_object_loop that looks at a comma at the member position and
\* leaves it in the buffer
handle_object_loop_comma_stays ==
    /\ At("handle_object", "loop")
    /\ LET d == drop_whitespace(src)
           p == peek(d.s)
           n == next(d.s)
       IN  IF ~d.ok THEN Raise(d.s, "UnexpectedEof", path)
           ELSE IF ~n.ok THEN Raise(n.s, "UnexpectedEof", path)
           ELSE IF n.b = COMMA THEN Go(p.s, out, events, stack, path, key, "running")
           ELSE IF n.b = QUOTE
           THEN Go(n.s, out, events,
                   Call(Fr("parse_string", "start", 0, 0, "key", 0), "after_key"),
                   path, <<>>, "running")
           ELSE IF n.b = RBRACE THEN Go(n.s, out, events, Return, path, key, "running")
           ELSE Raise(n.s, "InvalidData", path)

\* handle_object_loop that rejects a comma at the member position
handle_object_loop_strict ==
    /\ At("handle_object", "loop")
    /\ LET d == drop_whitespace(src)
           n == next(d.s)
       IN  IF ~d.ok THEN Raise(d.s, "UnexpectedEof", path)
           ELSE IF ~n.ok THEN Raise(n.s, "UnexpectedEof", path)
           ELSE IF n.b = QUOTE
           THEN Go(n.s, out, events,
                   Call(Fr("parse_string", "start", 0, 0, "key", 0), "after_key"),
                   path, <<>>, "running")
           ELSE IF n.b = RBRACE THEN Go(n.s, out, events, Return, path, key, "running")
           ELSE Raise(n.s, "InvalidData", path)

\* handle_object: the top of the loop, up to the key's parse_string
handle_object_loop ==
    /\ At("handle_object", "loop")
    /\ LET d == drop_whitespace(src)
           n == next(d.s)
       IN  IF ~d.ok THEN Raise(d.s, "UnexpectedEof", path)
           ELSE IF ~n.ok THEN Raise(n.s, "UnexpectedEof", path)
           ELSE IF n.b = COMMA THEN Go(n.s, out, events, stack, path, key, "running")
           ELSE IF n.b = QUOTE
           THEN Go(n.s, out, events,
                   Call(Fr("parse_string", "start", 0, 0, "key", 0), "after_key"),
                   path, <<>>, "running")
           ELSE IF n.b = RBRACE THEN Go(n.s, out, events, Return, path, key, "running")
           ELSE Raise(n.s, "InvalidData", path)

\* handle_object_after_key that forgets path.push(key)
handle_object_after_key_no_push ==
    /\ At("handle_object", "after_key")
    /\ LET d == drop_whitespace(src)
           n == next(d.s)
           e == drop_whitespace(n.s)
       IN  IF ~d.ok THEN Raise(d.s, "UnexpectedEof", path)
           ELSE IF ~n.ok THEN Raise(n.s, "UnexpectedEof", path)
           ELSE IF n.b # COLON THEN Raise(n.s, "InvalidData", path)
           ELSE IF ~e.ok THEN Raise(e.s, "UnexpectedEof", path)
           ELSE Go(e.s, out, events,
                   Call(FrPushed("handle_one", "start", Top.depth - 1, path), "after_val"),
                   path, key, "running")

\* handle_object: path.push(key), the colon, up to handle_one of the value
handle_object_after_key ==
    /\ At("handle_object", "after_key")
    /\ LET pushed == Append(path, key)
           d == drop_whitespace(src)
           n == next(d.s)
           e == drop_whitespace(n.s)
       IN  IF ~d.ok THEN Raise(d.s, "UnexpectedEof", pushed)
           ELSE IF ~n.ok THEN Raise(n.s, "UnexpectedEof", pushed)
           ELSE IF n.b # COLON THEN Raise(n.s, "InvalidData", pushed)
           ELSE IF ~e.ok THEN Raise(e.s, "UnexpectedEof", pushed)
           ELSE Go(e.s, out, events,
                   Call(FrPushed("handle_one", "start", Top.depth - 1, pushed), "after_val"),
                   pushed, key, "running")

\* handle_object_after_val that forgets path.pop()
handle_object_after_val_no_pop ==
    /\ At("handle_object", "after_val")
    /\ LET d == drop_whitespace(src)
           n == next(d.s)
       IN  IF ~d.ok THEN Raise(d.s, "UnexpectedEof", path)
           ELSE IF ~n.ok THEN Raise(n.s, "UnexpectedEof", path)
           ELSE IF n.b = RBRACE THEN Go(n.s, out, events, Return, path, key, "running")
           ELSE IF n.b = COMMA THEN Go(n.s, out, events, Cont("loop"), path, key, "running")
           ELSE Raise(n.s, "InvalidData", path)

\* handle_object: after the value: path.pop() and the delimiter
handle_object_after_val ==
    /\ At("handle_object", "after_val")
    /\ LET d == drop_whitespace(src)
           popped == SubSeq(path, 1, Len(path) - 1)
           n == next(d.s)
       IN  IF ~d.ok THEN Raise(d.s, "UnexpectedEof", path)
           ELSE IF ~n.ok THEN Raise(n.s, "UnexpectedEof", popped)
           ELSE IF n.b = RBRACE THEN Go(n.s, out, events, Return, popped, key, "running")
           ELSE IF n.b = COMMA THEN Go(n.s, out, events, Cont("loop"), popped, key, "running")
           ELSE Raise(n.s, "InvalidData", popped)

\* handle_array_loop that does not look for ']' before an element
handle_array_loop_no_close_check ==
    /\ At("handle_array", "loop")
    /\ LET d == drop_whitespace(src)
       IN  IF ~d.ok THEN Raise(d.s, "UnexpectedEof", path)
           ELSE Go(d.s, out, events,
                   Call(FrPushed("handle_one", "start", Top.depth - 1,
                                 Append(path, format_idx(Top.idx))), "after_val"),
                   Append(path, format_idx(Top.idx)), key, "running")

\* handle_array_loop that looks for ']' before the first element only
handle_array_loop_first_only ==
    /\ At("handle_array", "loop")
    /\ LET d == drop_whitespace(src)
           p == peek(d.s)
           n == next(p.s)
       IN  IF ~d.ok THEN Raise(d.s, "UnexpectedEof", path)
           ELSE IF Top.idx = 0 /\ p.ok /\ p.b = RBRACKET
           THEN IF ~n.ok THEN Raise(n.s, "UnexpectedEof", path)
                ELSE Go(n.s, out, events, Return, path, key, "running")
           ELSE Go(p.s, out, events,
                   Call(FrPushed("handle_one", "start", Top.depth - 1,
                                 Append(path, format_idx(Top.idx))), "after_val"),
                   Append(path, format_idx(Top.idx)), key, "running")

\* handle_array_loop that hands its own depth on to the element
handle_array_loop_same_depth ==
    /\ At("handle_array", "loop")
    /\ LET d == drop_whitespace(src)
           p == peek(d.s)
           n == next(p.s)
       IN  IF ~d.ok THEN Raise(d.s, "UnexpectedEof", path)
           ELSE IF p.ok /\ p.b = RBRACKET
           THEN IF ~n.ok THEN Raise(n.s, "UnexpectedEof", path)
                ELSE Go(n.s, out, events, Return, path, key, "running")
           ELSE Go(p.s, out, events,
                   Call(FrPushed("handle_one", "start", Top.depth,
                                 Append(path, format_idx(Top.idx))), "after_val"),
                   Append(path, format_idx(Top.idx)), key, "running")

\* handle_array: the top of the loop, up to handle_one of the element
handle_array_loop ==
    /\ At("handle_array", "loop")
    /\ LET d == drop_whitespace(src)
           p == peek(d.s)
           n == next(p.s)
       IN  IF ~d.ok THEN Raise(d.s, "UnexpectedEof", path)
           ELSE IF p.ok /\ p.b = RBRACKET
           THEN IF ~n.ok THEN Raise(n.s, "UnexpectedEof", path)
                ELSE Go(n.s, out, events, Return, path, key, "running")
           ELSE Go(p.s, out, events,
                   Call(FrPushed("handle_one", "start", Top.depth - 1,
                                 Append(path, format_idx(Top.idx))), "after_val"),
                   Append(path, format_idx(Top.idx)), key, "running")

\* handle_array_after_val that takes the end of the stream for the end of the array
handle_array_after_val_eof_closes ==
    /\ At("handle_array", "after_val")
    /\ LET popped == SubSeq(path, 1, Len(path) - 1)
           d == drop_whitespace(src)
           n == next(d.s)
       IN  IF ~d.ok THEN Go(d.s, out, events, Return, popped, key, "running")
           ELSE IF ~n.ok THEN Go(n.s, out, events, Return, popped, key, "running")
           ELSE IF n.b = RBRACKET THEN Go(n.s, out, events, Return, popped, key, "running")
           ELSE IF n.b = COMMA
           THEN Go(n.s, out, events,
                   <<[Top EXCEPT !.pc = "loop", !.idx = Top.idx + 1]>> \o Tail(stack),
                   popped, key, "running")
           ELSE Raise(n.s, "InvalidData", popped)

\* handle_array: after the element: path.pop() and the delimiter
handle_array_after_val ==
    /\ At("handle_array", "after_val")
    /\ LET popped == SubSeq(path, 1, Len(path) - 1)
           d == drop_whitespace(src)
           n == next(d.s)
       IN  IF ~d.ok THEN Raise(d.s, "UnexpectedEof", popped)
           ELSE IF ~n.ok THEN Raise(n.s, "UnexpectedEof", popped)
           ELSE IF n.b = RBRACKET THEN Go(n.s, out, events, Return, popped, key, "running")
           ELSE IF n.b = COMMA
           THEN Go(n.s, out, events,
                   <<[Top EXCEPT !.pc = "loop", !.idx = Top.idx + 1]>> \o Tail(stack),
                   popped, key, "running")
           ELSE Raise(n.s, "InvalidData", popped)

\* scan_object: into.write_all(b"{")
scan_object_start ==
    /\ At("scan_object", "start")
    /\ Write(src, "sink", <<LBRACE>>, Cont("loop"))

\* scan_object: the top of the loop, up to the key's parse_string
scan_object_loop ==
    /\ At("scan_object", "loop")
    /\ LET d == drop_whitespace(src)
           n == next(d.s)
       IN  IF ~d.ok THEN Raise(d.s, "UnexpectedEof", path)
           ELSE IF ~n.ok THEN Raise(n.s, "UnexpectedEof", path)
           ELSE IF n.b = COMMA THEN Go(n.s, out, events, stack, path, key, "running")
           ELSE IF n.b = QUOTE
           THEN Go(n.s, out, events,
                   Call(Fr("parse_string", "start", 0, 0, "sink", 0), "after_key"),
                   path, key, "running")
           ELSE IF n.b = RBRACE THEN Write(n.s, "sink", <<RBRACE>>, Return)
           ELSE Raise(n.s, "InvalidData", path)

\* scan_object: the colon, up to scan_one of the value
scan_object_after_key ==
    /\ At("scan_object", "after_key")
    /\ LET d == drop_whitespace(src)
           n == next(d.s)
           e == drop_whitespace(n.s)
       IN  IF ~d.ok THEN Raise(d.s, "UnexpectedEof", path)
           ELSE IF ~n.ok THEN Raise(n.s, "UnexpectedEof", path)
           ELSE IF n.b # COLON THEN Raise(n.s, "InvalidData", path)
           ELSE IF ~e.ok THEN RaiseAfterWrite(e.s, "UnexpectedEof", <<COLON>>)
           ELSE Write(e.s, "sink", <<COLON>>,
                      Call(Fr("scan_one", "start", 0, 0, "sink", 0), "after_val"))

\* scan_object: after the value: the delimiter
scan_object_after_val ==
    /\ At("scan_object", "after_val")
    /\ LET d == drop_whitespace(src)
           n == next(d.s)
       IN  IF ~d.ok THEN Raise(d.s, "UnexpectedEof", path)
           ELSE IF ~n.ok THEN Raise(n.s, "UnexpectedEof", path)
           ELSE IF n.b = RBRACE THEN Write(n.s, "sink", <<RBRACE>>, Return)
           ELSE IF n.b = COMMA THEN Write(n.s, "sink", <<COMMA>>, Cont("loop"))
           ELSE Raise(n.s, "InvalidData", path)

\* scan_array: into.write_all(b"[")
scan_array_start ==
    /\ At("scan_array", "start")
    /\ Write(src, "sink", <<LBRACKET>>, Cont("loop"))

\* scan_array: the top of the loop, up to scan_one of the element
scan_array_loop ==
    /\ At("scan_array", "loop")
    /\ LET d == drop_whitespace(src)
           p == peek(d.s)
           n == next(p.s)
       IN  IF ~d.ok THEN Raise(d.s, "UnexpectedEof", path)
           ELSE IF p.ok /\ p.b = RBRACKET
           THEN IF ~n.ok THEN Raise(n.s, "UnexpectedEof", path)
                ELSE Write(n.s, "sink", <<RBRACKET>>, Return)
           ELSE Go(p.s, out, events,
                   Call(Fr("scan_one", "start", 0, 0, "sink", 0), "after_val"),
                   path, key, "running")

\* scan_array_after_val that does not copy the comma between elements
scan_array_after_val_drops_comma ==
    /\ At("scan_array", "after_val")
    /\ LET d == drop_whitespace(src)
           n == next(d.s)
       IN  IF ~d.ok THEN Raise(d.s, "UnexpectedEof", path)
           ELSE IF ~n.ok THEN Raise(n.s, "UnexpectedEof", path)
           ELSE IF n.b = RBRACKET THEN Write(n.s, "sink", <<RBRACKET>>, Return)
           ELSE IF n.b = COMMA THEN Go(n.s, out, events, Cont("loop"), path, key, "running")
           ELSE Raise(n.s, "InvalidData", path)

\* scan_array: after the element: the delimiter
scan_array_after_val ==
    /\ At("scan_array", "after_val")
    /\ LET d == drop_whitespace(src)
           n == next(d.s)
       IN  IF ~d.ok THEN Raise(d.s, "UnexpectedEof", path)
           ELSE IF ~n.ok THEN Raise(n.s, "UnexpectedEof", path)
           ELSE IF n.b = RBRACKET THEN Write(n.s, "sink", <<RBRACKET>>, Return)
           ELSE IF n.b = COMMA THEN Write(n.s, "sink", <<COMMA>>, Cont("loop"))
           ELSE Raise(n.s, "InvalidData", path)

\* scan_primitive: into.write_all(&[start])
scan_primitive_start ==
    /\ At("scan_primitive", "start")
    /\ Write(src, Top.dst, <<Top.c>>, Cont("loop"))

\* scan_primitive: one turn of `while let Ok(b) = from.peek()`
scan_primitive_loop ==
    /\ At("scan_primitive", "loop")
    /\ LET p == peek(src)
           n == next(p.s)
       IN  IF ~p.ok THEN Go(p.s, out, events, Return, path, key, "running")
           ELSE IF is_primitive_end(p.b) THEN Go(p.s, out, events, Return, path, key, "running")
           ELSE IF ~n.ok THEN Raise(n.s, "UnexpectedEof", path)
           ELSE Write(n.s, Top.dst, <<n.b>>, stack)

\* the `for _ in 0..4` of parse_string's \u branch, with `left` digits to go;
\* err = "" when all four were hex digits
RECURSIVE read_hex(_, _)
read_hex(s, left) ==
    IF left = 0 THEN [err |-> "", s |-> s]
    ELSE LET h == next(s)
         IN  IF ~h.ok THEN [err |-> "UnexpectedEof", s |-> h.s]
             ELSE IF ~is_ascii_hexdigit(h.b) THEN [err |-> "InvalidData", s |-> h.s]
             ELSE read_hex(h.s, left - 1)

\* parse_string: into.write_all(b"\"")
parse_string_start ==
    /\ At("parse_string", "start")
    /\ Write(src, Top.dst, <<QUOTE>>, Cont("loop"))

\* parse_string: one turn of the loop
parse_string_loop ==
    /\ At("parse_string", "loop")
    /\ LET n == next(src)
           e == next(n.s)
           h == read_hex(e.s, 4)
       IN  IF ~n.ok THEN Raise(n.s, "UnexpectedEof", path)
           ELSE IF n.b = QUOTE THEN Write(n.s, Top.dst, <<QUOTE>>, Return)
           ELSE IF n.b = CR \/ n.b = LF THEN Raise(n.s, "InvalidData", path)
           ELSE IF n.b = BACKSLASH
           THEN IF ~e.ok THEN Raise(e.s, "UnexpectedEof", path)
                ELSE IF is_short_escape(e.b) THEN Write(e.s, Top.dst, <<BACKSLASH, e.b>>, stack)
                ELSE IF e.b = LOWER_U
                THEN IF h.err # "" THEN Raise(h.s, h.err, path)
                     ELSE Go(h.s, out, events, stack, path, key, "running")
                ELSE Raise(e.s, "InvalidData", path)
           ELSE Write(n.s, Top.dst, <<n.b>>, stack)

---------------------------------------------------------------------------
(* The inputs: JSON values and their serialisations, as the tests build them *)

Prim(s) == [t |-> "prim", s |-> s, e |-> <<>>]
Str(s) == [t |-> "str", s |-> s, e |-> <<>>]
Arr(e) == [t |-> "arr", s |-> <<>>, e |-> e]
Mem(k, v) == [t |-> "mem", s |-> k, e |-> <<v>>]
Obj(m) == [t |-> "obj", s |-> <<>>, e |-> m]
NoDoc == [t |-> "none", s |-> <<>>, e |-> <<>>]

IsLeaf(v) == v.t \in {"prim", "str"}

\* the i-th member's key: a, b, c, ...
KeyOf(i) == <<96 + i>>

\* 5 and "a"
Leaves == {Prim(<<53>>), Str(<<97>>)}

\* element lists of at most MaxWidth elements: one element from R, the others 5
ElemSeqs(R) ==
    {<<>>} \cup
    UNION {{[i \in 1..n |-> IF i = k THEN r ELSE Prim(<<53>>)] : k \in 1..n, r \in R} :
           n \in 1..MaxWidth}

ArrOf(es) == Arr(es)
ObjOf(es) == Obj([i \in 1..Len(es) |-> Mem(KeyOf(i), es[i])])
Containers(R) == {ArrOf(es) : es \in ElemSeqs(R)} \cup {ObjOf(es) : es \in ElemSeqs(R)}

Level1 == Leaves \cup Containers(Leaves)
Level2 == Leaves \cup Containers(Level1)
\* values of Level1 under two single-element containers
Deep ==
    UNION {{Arr(<<Arr(<<x>>)>>), Arr(<<ObjOf(<<x>>)>>),
            ObjOf(<<Arr(<<x>>)>>), ObjOf(<<ObjOf(<<x>>)>>)} : x \in Level1}

\* {"a":{"H":6},"b":{"H":7}} and ["a","b","c"]
Examples ==
    {Obj(<<Mem(<<97>>, Obj(<<Mem(<<72>>, Prim(<<54>>))>>)),
           Mem(<<98>>, Obj(<<Mem(<<72>>, Prim(<<55>>))>>))>>),
     Arr(<<Str(<<97>>), Str(<<98>>), Str(<<99>>)>>)}

\* documents without \u escapes
PlainDocs == Level2 \cup Deep \cup Examples

\* rër as the body of a string
EscBody == <<114, BACKSLASH, LOWER_U, 48, 48, 101, 98, 114>>

\* documents with a \u escape in a value or in a key: "rër",
\* {"five": "rër"}, ["rër"], {"rër": 5}, [["rër"]]
EscDocs ==
    {Str(EscBody),
     Obj(<<Mem(<<102, 105, 118, 101>>, Str(EscBody))>>),
     Arr(<<Str(EscBody)>>),
     Obj(<<Mem(EscBody, Prim(<<53>>))>>),
     Arr(<<Arr(<<Str(EscBody)>>)>>)}

RECURSIVE HasEscape(_)
HasEscape(v) ==
    \/ \E i \in 1..Len(v.s) : v.s[i] = BACKSLASH
    \/ \E i \in 1..Len(v.e) : HasEscape(v.e[i])

\* whitespace the pretty form puts after an opening bracket or a comma,
\* before a closing bracket, and after a colon
WsOpen(pretty) == IF pretty THEN <<LF, 32, 32>> ELSE <<>>
WsClose(pretty) == IF pretty THEN <<LF>> ELSE <<>>
WsColon(pretty) == IF pretty THEN <<32>> ELSE <<>>

RECURSIVE Ser(_, _)
RECURSIVE SerList(_, _, _)
\* the elements from the i-th on, comma separated
SerList(es, i, pretty) ==
    IF i > Len(es) THEN <<>>
    ELSE Ser(es[i], pretty)
         \o (IF i < Len(es) THEN <<COMMA>> \o WsOpen(pretty) ELSE <<>>)
         \o SerList(es, i + 1, pretty)

\* the JSON text of a value
Ser(v, pretty) ==
    IF v.t = "prim" THEN v.s
    ELSE IF v.t = "str" THEN <<QUOTE>> \o v.s \o <<QUOTE>>
    ELSE IF v.t = "mem"
    THEN <<QUOTE>> \o v.s \o <<QUOTE, COLON>> \o WsColon(pretty) \o Ser(v.e[1], pretty)
    ELSE IF v.e = <<>> THEN (IF v.t = "arr" THEN <<LBRACKET, RBRACKET>> ELSE <<LBRACE, RBRACE>>)
    ELSE (IF v.t = "arr" THEN <<LBRACKET>> ELSE <<LBRACE>>)
         \o WsOpen(pretty) \o SerList(v.e, 1, pretty) \o WsClose(pretty)
         \o (IF v.t = "arr" THEN <<RBRACKET>> ELSE <<RBRACE>>)

\* the stream of a test: the document, and in the pretty form whitespace around it
Stream(v, pretty) ==
    IF pretty THEN <<32>> \o Ser(v, TRUE) \o <<LF>> ELSE Ser(v, FALSE)

Prefixes(s) == {SubSeq(s, 1, n) : n \in 0..Len(s)}

\* streams of only ASCII whitespace, the empty one among them
Blanks == {<<>>, <<32>>, <<LF>>, <<32, 9>>, <<13, LF, 32>>, <<32, 12, LF, 9>>}

\* the compact JSON text of a value, each byte with the token it belongs to
RECURSIVE SerK(_)
RECURSIVE SerKList(_, _, _)
Tok(b, k) == [b |-> b, k |-> k]
SerKList(es, i, sep) ==
    IF i > Len(es) THEN <<>>
    ELSE SerK(es[i]) \o (IF i < Len(es) THEN <<Tok(COMMA, sep)>> ELSE <<>>)
                     \o SerKList(es, i + 1, sep)
SerK(v) ==
    IF v.t = "prim" THEN [i \in 1..Len(v.s) |-> Tok(v.s[i], "prim")]
    ELSE IF v.t = "str"
    THEN <<Tok(QUOTE, "str_open")>> \o [i \in 1..Len(v.s) |-> Tok(v.s[i], "body")]
                                    \o <<Tok(QUOTE, "str_close")>>
    ELSE IF v.t = "mem"
    THEN <<Tok(QUOTE, "key_open")>> \o [i \in 1..Len(v.s) |-> Tok(v.s[i], "body")]
                                    \o <<Tok(QUOTE, "str_close"), Tok(COLON, "colon")>>
                                    \o SerK(v.e[1])
    ELSE IF v.t = "arr"
    THEN <<Tok(LBRACKET, "open")>> \o SerKList(v.e, 1, "arr_comma") \o <<Tok(RBRACKET, "arr_close")>>
    ELSE <<Tok(LBRACE, "open")>> \o SerKList(v.e, 1, "obj_comma") \o <<Tok(RBRACE, "obj_close")>>

Bytes(toks) == [i \in 1..Len(toks) |-> toks[i].b]

\* what may stand in for the i-th token so that the text breaks the grammar
\* there: <<the bytes, the violation>>
Breaks(toks, i) ==
    LET k == toks[i].k
        prev == IF i = 1 THEN "none" ELSE toks[i - 1].k
        wrong == IF k \in {"arr_comma", "arr_close"} THEN RBRACE ELSE RBRACKET
    IN  IF k = "body"
        THEN {<<<<CR>>, "linebreak">>, <<<<LF>>, "linebreak">>,
              <<<<BACKSLASH, 120>>, "escape">>, <<<<BACKSLASH, 48>>, "escape">>,
              <<<<BACKSLASH, LOWER_U, 48, 103>>, "unicode">>,
              <<<<BACKSLASH, LOWER_U, 48, 48, 65, 32>>, "unicode">>,
              <<<<BACKSLASH, LOWER_U, 48, 48>>, "unterminated">>}
        ELSE IF k = "colon"
        THEN {<<<<>>, "colon">>, <<<<COMMA>>, "colon">>, <<<<32, 53>>, "colon">>}
        ELSE IF k = "key_open"
        THEN {<<<<53>>, "member">>, <<<<LBRACKET>>, "member">>, <<<<32, COLON>>, "member">>}
        ELSE IF k \in {"arr_comma", "arr_close", "obj_comma", "obj_close"} /\ prev = "prim"
        THEN {<<<<COLON>>, "delimiter">>, <<<<1>>, "delimiter">>,
              <<<<wrong>>, "delimiter">>, <<<<32, 120>>, "delimiter">>}
        ELSE IF k \in {"arr_comma", "arr_close", "obj_comma", "obj_close"}
                /\ prev \in {"str_close", "arr_close", "obj_close"}
        THEN {<<<<COLON>>, "delimiter">>, <<<<120>>, "delimiter">>,
              <<<<wrong>>, "delimiter">>, <<<<LF, QUOTE>>, "delimiter">>}
        ELSE {}

SyntaxFaults == {"linebreak", "escape", "unicode", "unterminated", "colon", "member", "delimiter"}

\* the documents that are broken or cut short: the values of Level1, bare and
\* as the only element of an array or an object
SmallDocs ==
    Level1 \cup {Arr(<<x>>) : x \in Level1} \cup {ObjOf(<<x>>) : x \in Level1} \cup Examples

\* <<stream, violation>>: a document with one token replaced
BrokenStreams ==
    UNION {UNION {{<<SubSeq(Bytes(SerK(d)), 1, i - 1) \o r[1]
                       \o SubSeq(Bytes(SerK(d)), i + 1, Len(SerK(d))), r[2]>> :
                   r \in Breaks(SerK(d), i)} :
                  i \in 1..Len(SerK(d))} :
           d \in SmallDocs}

\* a string, object or array cut anywhere after its first and before its last byte
CutStreams ==
    UNION {{SubSeq(Ser(d, FALSE), 1, n) : n \in 1..(Len(Ser(d, FALSE)) - 1)}
           \cup {<<32>> \o SubSeq(Ser(d, TRUE), 1, n) : n \in 1..(Len(Ser(d, TRUE)) - 1)} :
           d \in {x \in SmallDocs \cup EscDocs : x.t # "prim"}}

\* [ ] { } " , 5 and space
RawBytes == {LBRACKET, RBRACKET, LBRACE, RBRACE, QUOTE, COMMA, 53, 32}

\* every stream of 1..MaxRaw of these bytes
RawStreams == UNION {[1..n -> RawBytes] : n \in 1..MaxRaw}

\* the input and the value of the unit test zero_depth:  { "foo" : -5e6 }
\* with a space before and after
ZeroDepthInput ==
    <<32, LBRACE, 32, QUOTE, 102, 111, 111, QUOTE, 32, COLON, 32, 45, 53, 101, 54, 32, RBRACE, 32>>
ZeroDepthDoc == Obj(<<Mem(<<102, 111, 111>>, Prim(<<45, 53, 101, 54>>))>>)

\* 5 under L single-element arrays, as stack_abuse builds it
RECURSIVE Nest(_)
Nest(L) == IF L = 0 THEN Prim(<<53>>) ELSE Arr(<<Nest(L - 1)>>)
NestDocs == {Nest(L) : L \in 1..(MaxTarget + 1)}

\* streams of two top-level values with whitespace between them, and after
\* the last one in the second form
MultiDocs == {Prim(<<53>>), Str(<<97>>), Arr(<<Prim(<<53>>)>>), ObjOf(<<Prim(<<53>>)>>)}
MultiStreams ==
    UNION {{[stream |-> Ser(a, FALSE) \o <<32>> \o Ser(b, FALSE), docs |-> <<a, b>>],
            [stream |-> Ser(a, FALSE) \o <<LF>> \o Ser(b, FALSE) \o <<32, LF>>, docs |-> <<a, b>>]} :
           a \in MultiDocs, b \in MultiDocs}

RECURSIVE AfterEach(_, _, _)
\* the bytes with `extra` put after every byte `b`
AfterEach(bytes, b, extra) ==
    IF bytes = <<>> THEN <<>>
    ELSE <<Head(bytes)>> \o (IF Head(bytes) = b THEN extra ELSE <<>>)
                        \o AfterEach(Tail(bytes), b, extra)
RECURSIVE BeforeEach(_, _, _)
\* the bytes with `extra` put before every byte `b`
BeforeEach(bytes, b, extra) ==
    IF bytes = <<>> THEN <<>>
    ELSE (IF Head(bytes) = b THEN extra ELSE <<>>) \o <<Head(bytes)>>
                        \o BeforeEach(Tail(bytes), b, extra)

\* objects, bare and under or over another container
CommaDocs ==
    {d \in Level1 \cup Examples : d.t = "obj"}
        \cup {Arr(<<ObjOf(<<Prim(<<53>>)>>)>>), ObjOf(<<ObjOf(<<Prim(<<53>>)>>)>>)}
\* their texts with one or two commas after every '{'
CommaStreams ==
    UNION {{[stream |-> AfterEach(Stream(d, pretty), LBRACE, c), doc |-> d] :
            pretty \in BOOLEAN, c \in {<<COMMA>>, <<COMMA, 32, COMMA>>}} :
           d \in CommaDocs}

\* arrays without an empty array in them
TrailDocs ==
    {Arr(<<Prim(<<53>>)>>), Arr(<<Prim(<<53>>), Prim(<<53>>)>>), Arr(<<Str(<<97>>)>>),
     Arr(<<Arr(<<Prim(<<53>>)>>)>>), Arr(<<Arr(<<Prim(<<53>>)>>), Prim(<<53>>)>>)}
\* their texts with a comma before every ']'
TrailStreams ==
    UNION {{[stream |-> BeforeEach(Stream(d, pretty), RBRACKET, <<COMMA>>), doc |-> d] :
            pretty \in BOOLEAN} :
           d \in TrailDocs}

\* [,5]  [ ,5]  [,5,5]
LeadStreams ==
    {<<LBRACKET, COMMA, 53, RBRACKET>>,
     <<LBRACKET, 32, COMMA, 53, RBRACKET>>,
     <<LBRACKET, COMMA, 53, COMMA, 53, RBRACKET>>}

---------------------------------------------------------------------------
(* Initial states and the next-state relation *)

Start(bytes, d, f, tgt, hs) ==
    /\ input = bytes
    /\ doc = d
    /\ fault = f
    /\ target = tgt
    /\ header_style = hs
    /\ src = Source_new(bytes)
    /\ out = <<>>
    /\ events = <<>>
    /\ path = <<>>
    /\ stack = <<Fr("unnest_to_ndjson", "start", tgt, 0, "sink", 0)>>
    /\ key = <<>>
    /\ result = "running"

Targets == 0..MaxTarget

\* a well-formed document, compact or pretty
InitDoc ==
    \E d \in PlainDocs \cup EscDocs \cup NestDocs, pretty \in BOOLEAN,
       tgt \in Targets, hs \in HeaderStyles :
        Start(Stream(d, pretty), d, "none", tgt, hs)

\* the input of zero_depth
InitZeroDepth ==
    \E tgt \in Targets, hs \in HeaderStyles :
        Start(ZeroDepthInput, ZeroDepthDoc, "none", tgt, hs)

\* several top-level values in one stream
InitMulti ==
    \E m \in MultiStreams, tgt \in Targets :
        Start(m.stream, NoDoc, "multi", tgt, "PathArray")

\* stray commas at the member position of objects
InitComma ==
    \E m \in CommaStreams, tgt \in Targets :
        Start(m.stream, m.doc, "stray_comma", tgt, "PathArray")

\* a comma before the closing bracket of arrays
InitTrail ==
    \E m \in TrailStreams, tgt \in Targets :
        Start(m.stream, NoDoc, "trailing_comma", tgt, "PathArray")

\* a comma before the first element of an array
InitLead ==
    \E s \in LeadStreams, tgt \in Targets :
        Start(s, NoDoc, "leading_comma", tgt, "PathArray")

\* a stream of whitespace only
InitBlank ==
    \E b \in Blanks, tgt \in Targets, hs \in HeaderStyles :
        Start(b, NoDoc, "blank", tgt, hs)

\* a document with one grammar violation
InitBroken ==
    \E s \in BrokenStreams, tgt \in Targets :
        Start(s[1], NoDoc, s[2], tgt, "PathArray")

\* a document cut short
InitCut ==
    \E s \in CutStreams, tgt \in Targets :
        Start(s, NoDoc, "truncated", tgt, "PathArray")

\* arbitrary bytes
InitRaw ==
    \E s \in RawStreams, tgt \in Targets :
        Start(s, NoDoc, "raw", tgt, "PathArray")

Init ==
    \/ InitDoc
    \/ InitZeroDepth
    \/ InitBlank
    \/ InitBroken
    \/ InitCut
    \/ InitRaw
    \/ InitMulti
    \/ InitComma
    \/ InitTrail
    \/ InitLead

Next ==
    \/ unnest_start
    \/ unnest_ret
    \/ handle_one_start
    \/ handle_one_close
    \/ handle_one_ret
    \/ scan_one_start
    \/ scan_one_ret
    \/ handle_object_loop
    \/ handle_object_after_key
    \/ handle_object_after_val
    \/ handle_array_loop
    \/ handle_array_after_val
    \/ scan_object_start
    \/ scan_object_loop
    \/ scan_object_after_key
    \/ scan_object_after_val
    \/ scan_array_start
    \/ scan_array_loop
    \/ scan_array_after_val
    \/ scan_primitive_start
    \/ scan_primitive_loop
    \/ parse_string_start
    \/ parse_string_loop

Spec == Init /\ [][Next]_vars

\* streams that keep every loop of the traversal turning: runs of commas in
\* objects and arrays, whitespace that fills the buffer more than once,
\* strings with escapes, nested containers, and streams that break off or
\* break the grammar
LiveStreams ==
    {\* {,,"a":[5,{"b":"c"}],"d":"\n"}
     <<LBRACE, COMMA, COMMA, QUOTE, 97, QUOTE, COLON, LBRACKET, 53, COMMA, LBRACE, QUOTE, 98,
       QUOTE, COLON, QUOTE, 99, QUOTE, RBRACE, RBRACKET, COMMA, QUOTE, 100, QUOTE, COLON,
       QUOTE, BACKSLASH, 110, QUOTE, RBRACE>>,
     \* [[5,"a"],{,"b":[6]}] with whitespace between the tokens
     <<LBRACKET, 32, LBRACKET, 53, 32, 32, 32, 32, COMMA, QUOTE, 97, QUOTE, RBRACKET, LF, COMMA,
       LBRACE, COMMA, 32, QUOTE, 98, QUOTE, 32, COLON, 32, LBRACKET, 54, 32, RBRACKET, 32,
       RBRACE, RBRACKET, 32>>,
     \* whitespace, then 55, then whitespace
     <<32, 32, 32, 32, LF, 32, 32, 53, 53, 32, 32, 32, 32>>,
     \* whitespace only
     <<32, 32, 32, 32, 32, 32, 32>>,
     <<>>,
     \* {,,,,} and {,,,, and [,,,,] and [,,,,
     <<LBRACE, COMMA, COMMA, COMMA, COMMA, RBRACE>>,
     <<LBRACE, COMMA, COMMA, COMMA, COMMA>>,
     <<LBRACKET, COMMA, COMMA, COMMA, COMMA, RBRACKET>>,
     <<LBRACKET, COMMA, COMMA, COMMA, COMMA>>,
     \* ,,,, and 5555
     <<COMMA, COMMA, COMMA, COMMA>>,
     <<53, 53, 53, 53>>,
     \* "aaaa and "\u00e and {"a" 5}
     <<QUOTE, 97, 97, 97, 97>>,
     <<QUOTE, BACKSLASH, LOWER_U, 48, 48, 101>>,
     <<LBRACE, QUOTE, 97, QUOTE, 32, 53, RBRACE>>,
     \* [5 5] and {"a":5 "b":5} and {"a":{"b":5},,
     <<LBRACKET, 53, 32, 53, RBRACKET>>,
     <<LBRACE, QUOTE, 97, QUOTE, COLON, 53, 32, QUOTE, 98, QUOTE, COLON, 53, RBRACE>>,
     <<LBRACE, QUOTE, 97, QUOTE, COLON, LBRACE, QUOTE, 98, QUOTE, COLON, 53, RBRACE, COMMA, COMMA>>}

\* one of these streams, a well-formed document, or any two of the raw bytes
LiveInit ==
    \E s \in LiveStreams \cup {Stream(d, FALSE) : d \in PlainDocs \cup EscDocs \cup NestDocs}
                \cup [1..2 -> RawBytes],
       tgt \in Targets :
        Start(s, NoDoc, "live", tgt, "PathArray")

\* the runs whose end is asked for: these streams and the families of Init
\* that are built around a fault
FairInit ==
    \/ LiveInit
    \/ InitZeroDepth
    \/ InitBlank
    \/ InitBroken
    \/ InitCut
    \/ InitMulti
    \/ InitComma
    \/ InitTrail
    \/ InitLead

\* the run is one thread that is never suspended for good: whenever a step
\* of the traversal can be taken, one is taken
FairSpec == FairInit /\ [][Next]_vars /\ WF_vars(Next)

---------------------------------------------------------------------------
(* The Source on its own: its operations called in any order, over a reader *)
(* that hands its data over in pieces of any size.  out is what next has    *)
(* returned, events is what became of every byte taken from the buffer, and *)
(* key holds the byte the last peek returned.                               *)

\* a call of a Source operation; found is what read_many has read so far
SFr(fn, pc) == [fn |-> fn, pc |-> pc, found |-> 0]

SourceOps == {"next", "peek", "fill", "drop_whitespace"}

Handed(b) == [ev |-> "next", b |-> b]
Skipped(bytes) == [i \in 1..Len(bytes) |-> [ev |-> "skip", b |-> bytes[i]]]

\* the scanner calls one of the operations
source_call ==
    /\ stack = <<>>
    /\ \E op \in SourceOps :
          Go(src, out, events, <<SFr(op, IF op = "fill" THEN "start" ELSE "loop")>>,
             path, key, "running")

\* Source::next: one turn of its loop
source_next ==
    /\ At("next", "loop")
    /\ IF src.pos < src.len
       THEN Go(consume(src, 1), Append(out, src.buf[src.pos + 1]),
               Append(events, Handed(src.buf[src.pos + 1])), Return, path, <<>>, "running")
       ELSE Go(src, out, events, Call(SFr("fill", "start"), "loop"), path, key, "running")

\* Source::peek: one turn of its loop
source_peek ==
    /\ At("peek", "loop")
    /\ IF src.pos < src.len
       THEN Go(src, out, events, Return, path, <<src.buf[src.pos + 1]>>, "running")
       ELSE Go(src, out, events, Call(SFr("fill", "start"), "loop"), path, key, "running")

\* drop_whitespace: one turn of its loop
source_drop_whitespace ==
    /\ At("drop_whitespace", "loop")
    /\ LET view == buf(src)
           found == {i \in 1..Len(view) : ~is_ascii_whitespace(view[i])}
       IN  IF found # {}
           THEN Go(consume(src, Min(found) - 1), out,
                   events \o Skipped(SubSeq(view, 1, Min(found) - 1)), Return, path,
                   IF Min(found) > 1 THEN <<>> ELSE key, "running")
           ELSE Go(all_useless(src), out, events \o Skipped(view),
                   Call(SFr("fill", "start"), "loop"), path,
                   IF view # <<>> THEN <<>> ELSE key, "running")

\* source_fill_start that resets the buffer whether or not it is read to its end
source_fill_start_always_resets ==
    /\ At("fill", "start")
    /\ Go([src EXCEPT !.pos = 0, !.len = 0], out, events, Cont("read"), path, key, "running")

\* Source::fill: the reset of a buffer that is read to its end
source_fill_start ==
    /\ At("fill", "start")
    /\ Go(IF src.pos = src.len THEN [src EXCEPT !.pos = 0, !.len = 0] ELSE src,
          out, events, Cont("read"), path, key, "running")

\* read_many: one read of the underlying stream into the free room, which
\* hands over any number of bytes from one up to what fits and is there
source_fill_read ==
    /\ At("fill", "read")
    /\ LET at == src.len + Top.found
           room == BufSize - at
       IN  /\ room > 0
           /\ src.inner # <<>>
           /\ \E k \in 1..(IF room < Len(src.inner) THEN room ELSE Len(src.inner)) :
                 Go([src EXCEPT
                       !.buf = [i \in 1..BufSize |->
                                  IF i > at /\ i <= at + k THEN src.inner[i - at] ELSE src.buf[i]],
                       !.inner = SubSeq(src.inner, k + 1, Len(src.inner))],
                    out, events,
                    <<[Top EXCEPT !.found = Top.found + k]>> \o Tail(stack),
                    path, key, "running")

\* source_fill_end that takes no new bytes for the end of the input even
\* when unread bytes remain
source_fill_end_no_new_is_eof ==
    /\ At("fill", "read")
    /\ BufSize - (src.len + Top.found) = 0 \/ src.inner = <<>>
    /\ IF Top.found = 0
       THEN Go(src, out, events, <<>>, path, key, "UnexpectedEof")
       ELSE Go([src EXCEPT !.len = src.len + Top.found], out, events, Return, path, key, "running")

\* Source::fill: read_many is done (the room is full, or a read returned 0):
\* the error test and len += found
source_fill_end ==
    /\ At("fill", "read")
    /\ BufSize - (src.len + Top.found) = 0 \/ src.inner = <<>>
    /\ IF Top.found = 0 /\ src.len = 0
       THEN Go(src, out, events, <<>>, path, key, "UnexpectedEof")
       ELSE Go([src EXCEPT !.len = src.len + Top.found], out, events, Return, path, key, "running")

\* space, 5 and 6
StreamBytes == {32, 53, 54}
Streams == UNION {[1..n -> StreamBytes] : n \in 0..MaxStream}

SourceInit ==
    \E s \in Streams :
        /\ input = s
        /\ src = Source_new(s)
        /\ out = <<>>
        /\ events = <<>>
        /\ stack = <<>>
        /\ path = <<>>
        /\ key = <<>>
        /\ result = "running"
        /\ doc = NoDoc
        /\ fault = "source"
        /\ target = 0
        /\ header_style = "None"

SourceNext ==
    \/ source_call
    \/ source_next
    \/ source_peek
    \/ source_drop_whitespace
    \/ source_fill_start
    \/ source_fill_read
    \/ source_fill_end

SourceSpec == SourceInit /\ [][SourceNext]_vars

---------------------------------------------------------------------------
(* What the sink has received, read back as items *)

Done == result # "running"
Finished == result = "Ok"

RECURSIVE ItemsUpTo(_, _)
\* the items the first n events make up: each "new" starts one, a "write"
\* adds to the last one, an "end" closes it
ItemsUpTo(evs, n) ==
    IF n = 0 THEN <<>>
    ELSE LET acc == ItemsUpTo(evs, n - 1)
             e == evs[n]
         IN  IF e.ev = "new" \/ acc = <<>>
             THEN Append(acc, [path |-> e.path, val |-> e.bytes, closed |-> e.ev = "end"])
             ELSE IF e.ev = "write"
             THEN [acc EXCEPT ![Len(acc)].val = @ \o e.bytes]
             ELSE [acc EXCEPT ![Len(acc)].closed = TRUE]

Items == ItemsUpTo(events, Len(events))
PathVal(items) == [i \in 1..Len(items) |-> [path |-> items[i].path, val |-> items[i].val]]

RECURSIVE Expected(_, _, _)
RECURSIVE ExpectedList(_, _, _, _)
\* the fragments of a document in document order: the values t levels down
\* and the leaves above, each with the keys and indices that lead to it
ExpectedList(v, i, t, p) ==
    IF i > Len(v.e) THEN <<>>
    ELSE (IF v.t = "arr"
          THEN Expected(v.e[i], t - 1, Append(p, <<48 + (i - 1)>>))
          ELSE Expected(v.e[i].e[1], t - 1, Append(p, <<QUOTE>> \o v.e[i].s \o <<QUOTE>>)))
         \o ExpectedList(v, i + 1, t, p)
Expected(v, t, p) ==
    IF t = 0 \/ IsLeaf(v) THEN <<[path |-> p, val |-> Ser(v, FALSE)]>>
    ELSE ExpectedList(v, 1, t, p)

Want == Expected(doc, target, <<>>)

RECURSIVE JoinComma(_)
JoinComma(p) ==
    IF p = <<>> THEN <<>>
    ELSE IF Len(p) = 1 THEN p[1]
    ELSE p[1] \o <<COMMA>> \o JoinComma(Tail(p))

\* {"key":[p1,...,pn],"value":
KeyPart(p) ==
    <<123, 34, 107, 101, 121, 34, 58, 91>> \o JoinComma(p)
        \o <<93, 44, 34, 118, 97, 108, 117, 101, 34, 58>>

\* the text of one item in a header style; an item still open has no line end yet
Line(it, hs) ==
    (IF hs = "PathArray" THEN KeyPart(it.path) ELSE <<>>)
        \o it.val
        \o (IF ~it.closed THEN <<>> ELSE IF hs = "PathArray" THEN <<125, 10>> ELSE <<10>>)

RECURSIVE Lines(_, _)
Lines(items, hs) ==
    IF items = <<>> THEN <<>> ELSE Line(Head(items), hs) \o Lines(Tail(items), hs)

IsPrefix(a, b) == Len(a) <= Len(b) /\ SubSeq(b, 1, Len(a)) = a

Depths(items) == [i \in 1..Len(items) |-> Len(items[i].path)]
Paths(items) == [i \in 1..Len(items) |-> items[i].path]
AtDepth(items, d) == SelectSeq(items, LAMBDA it : Len(it.path) = d)
Above(items, d) == SelectSeq(items, LAMBDA it : Len(it.path) < d)
WellFormed == doc # NoDoc
Plain == doc # NoDoc /\ ~HasEscape(doc)

---------------------------------------------------------------------------
(* Claims *)

\* C1: with path-array headers, every value exactly `target` levels below the
\* root of a well-formed document yields exactly one line
\* {"key":[p1,...,pt],"value":V}\n, in document order, p1..pt the keys (as
\* string literals) and indices leading to it and V the JSON of that subtree.
\* Stated as the claim has it, for every well-formed document.
C1_PathLines ==
    Done /\ WellFormed /\ header_style = "PathArray" =>
        /\ Finished
        /\ AtDepth(PathVal(Items), target) = AtDepth(Want, target)
        /\ \A i \in 1..Len(Items) : Items[i].closed
        /\ out = Lines(Items, "PathArray")

\* On the documents without a \u escape the lines are as C1 states them.
PlainPathLines == Plain => C1_PathLines

\* C2: the sink receives non-overlapping groups: a start of item, one or more
\* content writes, an end of item; no item starts while another is open, no
\* byte reaches the sink outside an item, and the items come in the order of
\* their values in the input.
C2_Groups ==
    /\ \A i \in 1..Len(events) :
          /\ events[i].ev = "new" => i = 1 \/ events[i - 1].ev = "end"
          /\ events[i].ev = "write" => i > 1 /\ events[i - 1].ev \in {"new", "write"}
          /\ events[i].ev = "end" => i > 1 /\ events[i - 1].ev = "write"
    /\ \A i, j \in 1..Len(events) :
          i < j /\ events[i].ev = "new" /\ events[j].ev = "new"
              => events[i].at < events[j].at
    /\ out = Lines(Items, header_style)
    /\ Plain => IsPrefix(Paths(Items), Paths(Want))

C2_Witness ==
    /\ Finished
    /\ Len(Items) >= 2
    /\ \A i \in 1..Len(Items) : Items[i].closed /\ Len(Items[i].val) >= 2

\* C3: a string or primitive found at depth d < target yields exactly one
\* fragment, whose path has d segments; a container above the target yields
\* no fragment of its own.
C3_ShallowLeaves ==
    Done /\ WellFormed =>
        /\ Finished
        /\ Depths(Items) = Depths(Want)
        /\ \A i \in 1..Len(Items) :
              Len(Items[i].path) < target => Items[i].val[1] \notin {LBRACE, LBRACKET}
        /\ Plain => Above(PathVal(Items), target) = Above(Want, target)

C3_Witness ==
    /\ Finished
    /\ WellFormed
    /\ \E i, j \in 1..Len(Items) :
          /\ Len(Items[i].path) = 1 /\ target = 2
          /\ Len(Items[j].path) = 2

\* C4: the k-th element (from 0) of an array traversed toward the target gets
\* the decimal text of k as its path segment, whatever the elements are;
\* ["a","b","c"] at target 1 gives 0, 1, 2 with "a", "b", "c".
Indices(p) == SelectSeq(p, LAMBDA seg : seg[1] # QUOTE)
C4_ArrayIndices ==
    Done /\ Plain =>
        /\ Finished
        /\ Len(Items) = Len(Want)
        /\ \A i \in 1..Len(Items) :
              /\ Len(Items[i].path) = Len(Want[i].path)
              /\ Indices(Items[i].path) = Indices(Want[i].path)
        /\ doc = Arr(<<Str(<<97>>), Str(<<98>>), Str(<<99>>)>>) /\ target = 1 =>
              PathVal(Items) = <<[path |-> <<<<48>>>>, val |-> <<34, 97, 34>>],
                                 [path |-> <<<<49>>>>, val |-> <<34, 98, 34>>],
                                 [path |-> <<<<50>>>>, val |-> <<34, 99, 34>>]>>

C4_Witness ==
    /\ Finished
    /\ Plain
    /\ \E i \in 1..Len(Items) :
          /\ Items[i].path = <<<<49>>, <<48>>>>
          /\ i > 1

\* C5: an empty object or array above the target (the whole document at
\* target 1, a member at target 2) produces no fragment and no output byte,
\* and the run succeeds.
RECURSIVE EmptyAbove(_, _)
EmptyAbove(v, t) ==
    /\ v.t \in {"arr", "obj"}
    /\ t > 0
    /\ \A i \in 1..Len(v.e) :
          EmptyAbove(IF v.t = "obj" THEN v.e[i].e[1] ELSE v.e[i], t - 1)
RECURSIVE EmptyRoutes(_, _, _)
\* the routes to the empty containers less than t levels down
EmptyRoutes(v, t, p) ==
    IF IsLeaf(v) \/ t = 0 THEN {}
    ELSE IF v.e = <<>> THEN {p}
    ELSE UNION {IF v.t = "arr"
                THEN EmptyRoutes(v.e[i], t - 1, Append(p, <<48 + (i - 1)>>))
                ELSE EmptyRoutes(v.e[i].e[1], t - 1, Append(p, <<QUOTE>> \o v.e[i].s \o <<QUOTE>>)) :
                i \in 1..Len(v.e)}
C5_EmptyContainers ==
    /\ Done /\ WellFormed /\ EmptyAbove(doc, target) =>
          /\ Finished
          /\ out = <<>>
          /\ events = <<>>
    /\ Done /\ Plain =>
          /\ Finished
          /\ \A i \in 1..Len(Items) : \A r \in EmptyRoutes(doc, target, <<>>) :
                ~IsPrefix(r, Items[i].path)

C5_Witness ==
    /\ Finished
    /\ WellFormed
    /\ EmptyAbove(doc, target)
    /\ doc.e # <<>>
    /\ doc.t = "arr"
    /\ target = 2
    /\ out = <<>>

C7_EscapeKept ==
    Done /\ WellFormed /\ HasEscape(doc) =>
        /\ Finished
        /\ PathVal(Items) = Want

\* C8: a raw \r or \n in a string, an escape letter outside " / \ b f r n t u,
\* a \u without four hex digits, an escape broken off by another byte, a key
\* not followed by ':', a member position that is neither '"', ',' nor '}',
\* and a byte after a member or element that is neither ',' nor the matching
\* closing bracket, each make the run return InvalidData.
C8_SyntaxErrors ==
    Done /\ fault \in SyntaxFaults => result = "InvalidData"

C8_Witness ==
    /\ result = "InvalidData"
    /\ fault = "unterminated"
    /\ out # <<>>

\* C9: when the stream ends inside a string, after a key or colon, or inside
\* an object or array still open, the run returns UnexpectedEof; what the
\* sink had received stays, and nothing is written after the failure.
C9_CutShort ==
    /\ [](Done /\ fault = "truncated" => result = "UnexpectedEof")
    /\ [][IsPrefix(out, out') /\ (Done => out' = out /\ events' = events)]_vars

C9_Witness ==
    /\ result = "UnexpectedEof"
    /\ fault = "truncated"
    /\ Len(Items) >= 1
    /\ Items[1].closed

\* C10: an empty stream, or one of ASCII whitespace only, is a clean end of
\* stream: unnest_to_ndjson returns Ok and the sink receives nothing.
C10_BlankIsCleanEnd ==
    Done /\ fault = "blank" => result = "Ok" /\ out = <<>>

\* C11: for a stream of several top-level values separated by whitespace the
\* driver processes every value in order until the end of the stream: the
\* items are those of the first value followed by those of the second, and
\* whitespace after the last value ends the run with Ok.
C11_EveryValue ==
    Done /\ fault = "multi" =>
        /\ Finished
        /\ \A m \in MultiStreams :
              input = m.stream =>
                  PathVal(Items) = Expected(m.docs[1], target, <<>>)
                                       \o Expected(m.docs[2], target, <<>>)

RECURSIVE Balanced(_, _, _)
\* the bytes close every bracket they open, in order, and every string;
\* opened: the brackets open so far, innermost last; inside: within a string
Balanced(bytes, opened, inside) ==
    IF bytes = <<>> THEN opened = <<>> /\ ~inside
    ELSE LET b == Head(bytes)
             r == Tail(bytes)
             n == Len(opened)
         IN  IF inside
             THEN IF b = BACKSLASH THEN r # <<>> /\ Balanced(Tail(r), opened, TRUE)
                  ELSE Balanced(r, opened, b # QUOTE)
             ELSE IF b = QUOTE THEN Balanced(r, opened, TRUE)
             ELSE IF b = LBRACE \/ b = LBRACKET THEN Balanced(r, Append(opened, b), FALSE)
             ELSE IF b = RBRACE
             THEN n > 0 /\ opened[n] = LBRACE /\ Balanced(r, SubSeq(opened, 1, n - 1), FALSE)
             ELSE IF b = RBRACKET
             THEN n > 0 /\ opened[n] = LBRACKET /\ Balanced(r, SubSeq(opened, 1, n - 1), FALSE)
             ELSE Balanced(r, opened, FALSE)

\* C12: every item that has been closed holds one complete value: its
\* brackets and quotes are balanced, whatever the input and however the run
\* ends.
C12_ClosedIsBalanced ==
    \A i \in 1..Len(Items) :
        Items[i].closed => Items[i].val # <<>> /\ Balanced(Items[i].val, <<>>, FALSE)

\* C13: with target 0 the input  { "foo" : -5e6 }  (a space before and
\* after) leaves exactly {"foo":-5e6} in the sink and nothing else.
C13_ZeroDepth ==
    Done /\ input = ZeroDepthInput /\ target = 0 =>
        /\ Finished
        /\ out = <<LBRACE, QUOTE, 102, 111, 111, QUOTE, COLON, 45, 53, 101, 54, RBRACE>>

\* where in the input the k-th item starts and ends: the bytes consumed when
\* it was opened and when it was closed
NewAt == SelectSeq(events, LAMBDA e : e.ev = "new")
EndAt == SelectSeq(events, LAMBDA e : e.ev = "end")
Slice(k) == SubSeq(input, NewAt[k].at + 1, EndAt[k].at)
\* the closed items that were opened at the target depth
Fragments == {k \in 1..Len(Items) : Items[k].closed /\ Len(Items[k].path) = target}

RECURSIVE IsSubseq(_, _)
\* a is b with some bytes left out
IsSubseq(a, b) ==
    IF a = <<>> THEN TRUE
    ELSE IF b = <<>> THEN FALSE
    ELSE IF Head(a) = Head(b) THEN IsSubseq(Tail(a), Tail(b))
    ELSE IsSubseq(a, Tail(b))

RECURSIVE Squeeze(_, _)
\* the bytes without the whitespace outside strings and without the \uXXXX
\* escapes inside them
Squeeze(bytes, inside) ==
    IF bytes = <<>> THEN <<>>
    ELSE LET b == Head(bytes)
             r == Tail(bytes)
         IN  IF inside
             THEN IF b = BACKSLASH /\ r # <<>> /\ Head(r) = LOWER_U
                  THEN Squeeze(SubSeq(r, 6, Len(r)), TRUE)
                  ELSE IF b = BACKSLASH /\ r # <<>>
                  THEN <<b, Head(r)>> \o Squeeze(Tail(r), TRUE)
                  ELSE <<b>> \o Squeeze(r, b # QUOTE)
             ELSE IF b \in {9, 10, 12, 13, 32} THEN Squeeze(r, FALSE)
             ELSE <<b>> \o Squeeze(r, b = QUOTE)

\* C14, as stated: the bytes of a value emitted at the target depth equal the
\* input bytes of that subtree.
C14_CopiedUnchanged ==
    \A k \in Fragments : Items[k].val = Slice(k)

\* C14, amended: the bytes of a value emitted at the target depth are the
\* input bytes of that subtree in their order with some left out; for a
\* well-formed document the bytes left out are the whitespace between tokens
\* and the \uXXXX escapes of strings.
C14_CopiedWithoutWhitespace ==
    \A k \in Fragments :
        /\ IsSubseq(Items[k].val, Slice(k))
        /\ fault = "none" => Items[k].val = Squeeze(Slice(k), FALSE)

C14_Witness ==
    /\ Finished
    /\ fault = "none"
    /\ \E k \in Fragments :
          /\ Items[k].val[1] = LBRACKET
          /\ Len(Items[k].val) >= 5
          /\ Len(Slice(k)) > Len(Items[k].val)

Zeros(n) == [i \in 1..n |-> <<48>>]

\* C15: 5 under L single-element arrays with target L - 1 succeeds and gives
\* exactly one fragment: its path is L - 1 segments 0 and its value is the
\* innermost array [5].
C15_NestedArrays ==
    \A L \in 1..(MaxTarget + 1) :
        Done /\ fault = "none" /\ doc = Nest(L) /\ target = L - 1 =>
            /\ Finished
            /\ PathVal(Items) = <<[path |-> Zeros(L - 1), val |-> <<LBRACKET, 53, RBRACKET>>]>>
            /\ header_style = "PathArray" =>
                  out = KeyPart(Zeros(L - 1)) \o <<LBRACKET, 53, RBRACKET, RBRACE, LF>>

C15_Witness ==
    /\ Finished
    /\ fault = "none"
    /\ doc = Nest(3)
    /\ target = 2
    /\ header_style = "PathArray"
    /\ Len(Items) = 1
    /\ Items[1].path = <<<<48>>, <<48>>>>

\* the calls that walk toward the target; depth is the levels still to go,
\* so the signed depth of the data model is -depth
Traversal == {"handle_one", "handle_object", "handle_array"}
Walking == result = "running" /\ stack # <<>> /\ Top.fn \in Traversal

\* C16, as stated: wherever handle_one runs (signed depth -Top.depth <= 0)
\* with path-array headers the length of the path equals minus the signed
\* depth.
C16_PathIsMinusDepth ==
    Walking /\ Top.fn = "handle_one" /\ header_style = "PathArray" => Len(path) = Top.depth

\* C16, amended: wherever the traversal is at or above the target the length
\* of the path equals target + signed depth, the descents made so far: in
\* handle_one and at the top of the loops of handle_object and handle_array
\* it is target - depth, and one more while an element's segment is pushed;
\* inside a fragment the path keeps the length it had.
C16_PathLength ==
    /\ Walking =>
          /\ Top.depth \in 0..target
          /\ Top.fn = "handle_one" => Len(path) = target - Top.depth
          /\ Top.fn # "handle_one" /\ Top.pc \in {"loop", "after_key"} =>
                Len(path) = target - Top.depth
          /\ Top.fn # "handle_one" /\ Top.pc = "after_val" =>
                Len(path) = target - Top.depth + 1
    /\ result = "running" /\ stack # <<>> /\ Top.fn \notin Traversal
           /\ Top.fn # "unnest_to_ndjson" =>
          Len(path) = Len(Top.entry)

C16_Witness ==
    /\ At("handle_one", "start")
    /\ target = 2
    /\ Top.depth = 0
    /\ Len(path) = 2
    /\ path[1][1] = QUOTE

\* C17: every return of handle_one, handle_object or handle_array that is
\* not an error leaves the path as it was when the call was made and the
\* depth of every call still running as it was; when handle_one of the
\* top-level value has returned the path is empty and the depth is the target.
C17_Balanced ==
    /\ [](At("unnest_to_ndjson", "ret") => path = <<>> /\ Top.depth = target)
    /\ [][/\ Walking /\ result' = "running" /\ stack' = Tail(stack) => path' = Top.entry
          /\ \A j \in 0..(Len(stack') - 1) :
                j < Len(stack) =>
                    stack'[Len(stack') - j].depth = stack[Len(stack) - j].depth]_vars

C17_Witness ==
    /\ At("unnest_to_ndjson", "ret")
    /\ path = <<>>
    /\ fault = "none"
    /\ \E i \in 1..Len(Items) : Len(Items[i].path) = 2 /\ Items[i].path[1][1] = QUOTE

\* the byte of the stream that comes next, or -1 at its end
Ahead == IF Consumed(src) < Len(input) THEN input[Consumed(src) + 1] ELSE -1
\* ASCII whitespace, the control bytes, and , ] } :
PrimitiveStops == {9, 10, 12, 13, 32, 44, 93, 125, 58} \cup (0..31) \cup {127}

\* C18: scan_primitive writes the first byte, which its caller has consumed,
\* and then every byte up to the first that is ASCII whitespace, , ] } : or
\* an ASCII control byte; that byte is neither written nor consumed, and the
\* end of the stream ends the primitive too, without an error.
C18_Primitive ==
    [][/\ At("scan_primitive", "start") =>
             /\ Top.c = input[Consumed(src)]
             /\ out' = out \o <<Top.c>>
             /\ Consumed(src') = Consumed(src)
             /\ result' = "running"
       /\ At("scan_primitive", "loop") =>
             IF Ahead = -1 \/ Ahead \in PrimitiveStops
             THEN /\ out' = out
                  /\ Consumed(src') = Consumed(src)
                  /\ stack' = Tail(stack)
                  /\ result' = "running"
             ELSE /\ out' = out \o <<Ahead>>
                  /\ Consumed(src') = Consumed(src) + 1
                  /\ stack' = stack
                  /\ result' = "running"]_vars

C18_Witness ==
    /\ result = "InvalidData"
    /\ Consumed(src) >= 2
    /\ input[Consumed(src)] = 1
    /\ Len(Items) >= 1
    /\ Items[Len(Items)].val = <<53>>
    /\ Items[Len(Items)].closed

\* the text the default sink makes of fragments
Rendered(w, hs) ==
    Lines([i \in 1..Len(w) |-> [path |-> w[i].path, val |-> w[i].val, closed |-> TRUE]], hs)

\* C19: an object with commas before its first key is processed without an
\* error and gives the output of the object without them, where the object
\* is on the way to the target and where it is copied inside a fragment.
C19_StrayCommas ==
    Done /\ fault = "stray_comma" =>
        /\ Finished
        /\ PathVal(Items) = Want
        /\ out = Rendered(Want, header_style)

C19_Witness ==
    /\ Finished
    /\ fault = "stray_comma"
    /\ target = 1
    /\ Len(Items) = 2
    /\ Items[1].val = <<LBRACE, QUOTE, 72, QUOTE, COLON, 54, RBRACE>>
    /\ Len(input) >= 31

\* C20: an array with a comma before its closing bracket is accepted; on the
\* way to the target it gives fragments for the elements before the comma
\* only, and copied inside a fragment it keeps the comma.  A comma before
\* the first element is not skipped: it is the first byte of a primitive.
C20_ArrayCommas ==
    /\ Done /\ fault = "trailing_comma" =>
          /\ Finished
          /\ \A m \in TrailStreams :
                input = m.stream =>
                    LET w == Expected(m.doc, target, <<>>)
                    IN  PathVal(Items) =
                            [i \in 1..Len(w) |->
                                [path |-> w[i].path,
                                 val |-> BeforeEach(w[i].val, RBRACKET, <<COMMA>>)]]
    /\ Done /\ fault = "leading_comma" =>
          /\ Finished
          /\ target = 0 => PathVal(Items) = <<[path |-> <<>>, val |-> Squeeze(input, FALSE)]>>
          /\ target > 0 =>
                /\ Len(Items) = (Len(Squeeze(input, FALSE)) - 2) \div 2
                /\ Items[1].path = <<<<48>>>>
                /\ Items[1].val = <<COMMA, 53>>
                /\ Len(Items) = 2 => Items[2].path = <<<<49>>>> /\ Items[2].val = <<53>>

C20_Witness ==
    /\ Finished
    /\ fault = "trailing_comma"
    /\ target = 1
    /\ Len(Items) = 2
    /\ Items[1].val = <<LBRACKET, 53, COMMA, RBRACKET>>
    /\ Items[2].val = <<53>>

\* the bytes of the stream the underlying reader has handed over
ReadSoFar == Len(input) - Len(src.inner)
\* the bytes the running fill has read and not yet added to len
Pending == IF stack # <<>> /\ Top.fn = "fill" THEN Top.found ELSE 0
FillEnds == At("fill", "read") /\ (BufSize - (src.len + Top.found) = 0 \/ src.inner = <<>>)

\* C21: fill returns UnexpectedEof exactly when, after the reset of a buffer
\* read to its end, no byte is buffered and read_many found none; in every
\* other case (a short read, or nothing new while unread bytes remain) it
\* returns Ok with the unread bytes kept and the new bytes right after them.
C21_Fill ==
    [][FillEnds =>
          /\ result' = "UnexpectedEof" <=> (src.len = 0 /\ Top.found = 0)
          /\ result' \in {"running", "UnexpectedEof"}
          /\ result' = "running" =>
                /\ stack' = Tail(stack)
                /\ src'.pos = src.pos
                /\ buf(src') = buf(src) \o SubSeq(input, ReadSoFar - Top.found + 1, ReadSoFar)]_vars

\* a fill that found nothing new while unread bytes remain, after an earlier
\* fill that got fewer bytes than it had room for
C21_Witness ==
    /\ FillEnds
    /\ fault = "source"
    /\ Top.found = 0
    /\ src.pos < src.len
    /\ src.len < BufSize
    /\ Len(input) > BufSize
    /\ Len(out) = Len(input) - 1

\* how many bytes of the stream have left the buffer, handed out or skipped
TakenOf(s, st) ==
    Len(input) - Len(s.inner) - (s.len - s.pos)
        - (IF st # <<>> /\ st[1].fn = "fill" THEN st[1].found ELSE 0)
Taken == TakenOf(src, stack)
\* the operation the scanner called, which may be running a fill
Running(op) == result = "running" /\ stack # <<>> /\ stack[Len(stack)].fn = op

\* C22: however the stream splits its data across reads and in whatever
\* order next, peek, fill and drop_whitespace are called, the bytes that
\* leave the buffer are the bytes of the stream in their order, each once;
\* the ones skipped are ASCII whitespace and the others are what next
\* returned; peek returns the byte the next next returns and takes nothing;
\* and 0 <= pos <= len <= the capacity of the buffer.
C22_SourceOrder ==
    /\ [](/\ 0 <= src.pos
          /\ src.pos <= src.len
          /\ src.len + Pending <= BufSize
          /\ [i \in 1..Len(events) |-> events[i].b] = SubSeq(input, 1, Taken)
          /\ \A i \in 1..Len(events) :
                events[i].ev = "skip" => events[i].b \in {9, 10, 12, 13, 32}
          /\ out = [i \in 1..Len(SelectSeq(events, LAMBDA e : e.ev = "next")) |->
                       SelectSeq(events, LAMBDA e : e.ev = "next")[i].b])
    /\ [][/\ Running("peek") =>
                /\ TakenOf(src', stack') = Taken
                /\ events' = events
                /\ out' = out
                /\ stack' = <<>> /\ result' = "running" => key' = <<input[Taken + 1]>>
          /\ Running("next") /\ stack' = <<>> /\ result' = "running" =>
                /\ Len(out') = Len(out) + 1
                /\ key # <<>> => out'[Len(out')] = key[1]]_vars

\* space 5 space 6 through a buffer of three bytes: 5 was handed out, the
\* whitespace skipped, and a peek has shown 6
C22_Witness ==
    /\ stack = <<>>
    /\ fault = "source"
    /\ input = <<32, 53, 32, 54>>
    /\ out = <<53>>
    /\ Len(events) = 3
    /\ key = <<54>>

\* a step that goes round a loop: the same call is at the top of its loop
\* again, coming from the top of the loop or from the delimiter after a value
LoopsBack ==
    /\ result = "running" /\ result' = "running"
    /\ stack # <<>> /\ stack' # <<>>
    /\ Tail(stack') = Tail(stack)
    /\ stack'[1].fn = stack[1].fn
    /\ stack[1].pc \in {"loop", "after_val"}
    /\ stack'[1].pc = "loop"

\* C23: for every input, well-formed or not, unnest_to_ndjson returns, with
\* Ok or an error, and every step that goes round a loop of the same call
\* takes at least one byte of the input, so no loop turns without progress.
C23_Terminates ==
    /\ <>Done
    /\ [][LoopsBack => Consumed(src') > Consumed(src)]_vars

\* {,,,,} toward the target: the run came to its end through the commas
C23_Witness ==
    /\ Done
    /\ fault = "live"
    /\ input = <<LBRACE, COMMA, COMMA, COMMA, COMMA, RBRACE>>
    /\ target = 1
    /\ Consumed(src) = 6

====
